---- MODULE Spec2Model ----
(***************************************************************************)
(* Model of the calculator Telegram bot (src/main.go).                     *)
(*                                                                         *)
(* A Go string is a sequence of bytes.  Text is written here as a sequence *)
(* of Unicode code points and turned into the bytes the program sees by    *)
(* UTF8/Encode; len(), indexing, strings.Index and slicing all act on the  *)
(* bytes, TrimSpace and the regular expression on the code points.         *)
(*                                                                         *)
(* A float64 is modelled as                                                *)
(*    [k |-> "fin", neg, n, d]   the exact rational (-1)^neg * n/d,        *)
(*                               reduced; neg matters for zero (-0)        *)
(*    [k |-> "inf", neg]         +Inf / -Inf                               *)
(*    [k |-> "nan"]              NaN                                       *)
(*    [k |-> "approx"]           a finite double whose digits the model    *)
(*                               does not compute (irrational powers,      *)
(*                               powers outside the modelled range)        *)
(*    [k |-> "unmodelled"]       a result the model cannot classify; the   *)
(*                               inputs are chosen so that it never occurs *)
(*                               (invariant ModelCoversInputs)             *)
(* The literals of the inputs are short, so a rational and the double      *)
(* nearest to it print alike under %.0f and %.6g.                          *)
(***************************************************************************)
EXTENDS Integers, Sequences, FiniteSets, TLC

VARIABLES
    expr,      \* Calculate: the argument, a sequence of code points
    pc,        \* Calculate: the statement reached
    stages,    \* Calculate: the steps executed so far, in order
    err,       \* Calculate: the error returned ("none" while there is none)
    a,         \* parseExpression's first result
    op,        \* parseExpression's second result, a sequence of bytes
    b,         \* parseExpression's third result
    result,    \* opFunc's result
    out,       \* the string Calculate returns
    updates,   \* bot: the updates still in the channel of GetUpdatesChan
    handlers,  \* bot: the goroutines spawned by Start, by update number
    sent,      \* bot: the calls of bot.Send so far, in order
    running    \* bot: Start has not returned

calcVars == <<expr, pc, stages, err, a, op, b, result, out>>
botVars == <<updates, handlers, sent, running>>
vars == <<expr, pc, stages, err, a, op, b, result, out, updates, handlers, sent, running>>

(***************************************************************************)
(* Characters                                                              *)
(***************************************************************************)

\* const maxExpressionLength = 100
maxExpressionLength == 100

\* The code points the program's literals name.
Ch ==
    [tab |-> 9, nl |-> 10, vt |-> 11, ff |-> 12, cr |-> 13, sp |-> 32,
     dollar |-> 36, percent |-> 37, lparen |-> 40, rparen |-> 41,
     star |-> 42, plus |-> 43, minus |-> 45, dot |-> 46, slash |-> 47,
     zero |-> 48, nine |-> 57, caret |-> 94, la |-> 97, lb |-> 98, lc |-> 99,
     nbsp |-> 160, times |-> 215, divide |-> 247]

\* The UTF-8 encoding of a code point below U+10000, as Go stores it.
UTF8(cp) ==
    IF cp < 128 THEN <<cp>>
    ELSE IF cp < 2048 THEN <<192 + (cp \div 64), 128 + (cp % 64)>>
    ELSE <<224 + (cp \div 4096), 128 + ((cp \div 64) % 64), 128 + (cp % 64)>>

RECURSIVE Encode(_)
\* The bytes of a string given by its code points: the encodings of its
\* characters one after the other (computed by halves).
Encode(s) ==
    IF s = <<>> THEN <<>>
    ELSE IF Len(s) = 1 THEN UTF8(s[1])
    ELSE Encode(SubSeq(s, 1, Len(s) \div 2)) \o Encode(SubSeq(s, (Len(s) \div 2) + 1, Len(s)))

\* unicode.IsSpace, which strings.TrimSpace trims by.
IsSpace(cp) ==
    \/ cp \in {9, 10, 11, 12, 13, 32, 133, 160, 5760, 8232, 8233, 8239, 8287, 12288}
    \/ cp \in 8192..8202

\* The least and the greatest member of a non-empty set of integers
Min(S) == CHOOSE i \in S : \A j \in S : i <= j
Max(S) == CHOOSE i \in S : \A j \in S : j <= i

\* strings.TrimSpace: s from its first to its last character that is no space
TrimSpace(s) ==
    LET solid == {i \in 1..Len(s) : ~IsSpace(s[i])}
    IN  IF solid = {} THEN <<>> ELSE SubSeq(s, Min(solid), Max(solid))

\* A character class that also lets letters through: [0-9a-z+\-*/×÷^%().\s]
ValidCharOrLetter(cp) ==
    \/ cp \in Ch.zero..Ch.nine
    \/ cp \in Ch.la..(Ch.la + 25)
    \/ cp \in {Ch.plus, Ch.minus, Ch.star, Ch.slash, Ch.times, Ch.divide,
               Ch.caret, Ch.percent, Ch.lparen, Ch.rparen, Ch.dot}
    \/ cp \in {Ch.tab, Ch.nl, Ch.ff, Ch.cr, Ch.sp}

\* A character class without the parentheses: [0-9+\-*/×÷^%.\s]
ValidCharNoParens(cp) ==
    \/ cp \in Ch.zero..Ch.nine
    \/ cp \in {Ch.plus, Ch.minus, Ch.star, Ch.slash, Ch.times, Ch.divide,
               Ch.caret, Ch.percent, Ch.dot}
    \/ cp \in {Ch.tab, Ch.nl, Ch.ff, Ch.cr, Ch.sp}

\* The character class [0-9+\-*/×÷^%().\s] of validChars; \s is [\t\n\f\r ].
ValidChar(cp) ==
    \/ cp \in Ch.zero..Ch.nine
    \/ cp \in {Ch.plus, Ch.minus, Ch.star, Ch.slash, Ch.times, Ch.divide,
               Ch.caret, Ch.percent, Ch.lparen, Ch.rparen, Ch.dot}
    \/ cp \in {Ch.tab, Ch.nl, Ch.ff, Ch.cr, Ch.sp}

\* validChars.MatchString: ^[...]+$ matches the whole text, one character or more.
MatchValidChars(s) == s # <<>> /\ \A i \in 1..Len(s) : ValidChar(s[i])

\* len(expr): the number of bytes
ByteLen(s) == Len(Encode(s))

\* validateExpression: the error it returns, "none" for nil.
validateExpression(s) ==
    IF ByteLen(s) > maxExpressionLength THEN "TooLong"
    ELSE IF TrimSpace(s) = <<>> THEN "Empty"
    ELSE IF ~MatchValidChars(s) THEN "InvalidCharacters"
    ELSE "none"

(***************************************************************************)
(* Numbers                                                                 *)
(***************************************************************************)

RECURSIVE GCD(_, _)
GCD(x, y) == IF y = 0 THEN x ELSE GCD(y, x % y)

\* The finite value (-1)^neg * n/d in lowest terms.
Fin(neg, n, d) ==
    LET g == GCD(n, d) IN [k |-> "fin", neg |-> neg, n |-> n \div g, d |-> d \div g]

Inf(neg) == [k |-> "inf", neg |-> neg]
NaN == [k |-> "nan"]
Approx == [k |-> "approx"]
Unmodelled == [k |-> "unmodelled"]

IsZero(v) == v.k = "fin" /\ v.n = 0
IsInteger(v) == v.k = "fin" /\ v.d = 1

RECURSIVE Pow10(_)
Pow10(e) == IF e = 0 THEN 1 ELSE 10 * Pow10(e - 1)

IsDigit(c) == c \in Ch.zero..Ch.nine

RECURSIVE DigitsFrom(_, _, _)
\* The number written by the digits of bs from position i on, after acc, the
\* point skipped.
DigitsFrom(bs, i, acc) ==
    IF i > Len(bs) THEN acc
    ELSE IF bs[i] = Ch.dot THEN DigitsFrom(bs, i + 1, acc)
    ELSE DigitsFrom(bs, i + 1, 10 * acc + (bs[i] - Ch.zero))

\* The number written by the digits of bs; leading zeros add nothing.
DigitsValue(bs) ==
    LET significant == {i \in 1..Len(bs) : bs[i] \notin {Ch.zero, Ch.dot}}
    IN  IF significant = {} THEN 0 ELSE DigitsFrom(bs, Min(significant), 0)

\* strconv.ParseFloat(s, 64) on bytes the validator lets through: an optional
\* sign, then digits with at most one point and at least one digit.  Anything
\* else is a syntax error.  (No exponent, "inf", "nan", "0x" or "_" can be
\* written with the validator's characters, and a literal of at most 100
\* digits is in float64's range.)
ParseDecimal(bs) ==
    LET signed == bs # <<>> /\ Head(bs) \in {Ch.plus, Ch.minus}
        body == IF signed THEN Tail(bs) ELSE bs
        dots == {i \in 1..Len(body) : body[i] = Ch.dot}
        digits == {i \in 1..Len(body) : IsDigit(body[i])}
        wellFormed ==
            /\ \A i \in 1..Len(body) : IsDigit(body[i]) \/ body[i] = Ch.dot
            /\ Cardinality(dots) <= 1
            /\ digits # {}
        fracLen == IF dots = {} THEN 0 ELSE Len(body) - (CHOOSE i \in dots : TRUE)
    IN  IF wellFormed
        THEN [ok |-> TRUE,
              v |-> Fin(signed /\ Head(bs) = Ch.minus, DigitsValue(body), Pow10(fracLen))]
        ELSE [ok |-> FALSE, v |-> Fin(FALSE, 0, 1)]

\* A ParseFloat that, like fmt.Sscanf, reads the longest number the text
\* starts with and ignores what follows it.
ParseFloatPrefix(bs) ==
    LET good == {k \in 1..Len(bs) : ParseDecimal(SubSeq(bs, 1, k)).ok}
    IN  IF good = {} THEN ParseDecimal(bs)
        ELSE ParseDecimal(SubSeq(bs, 1, CHOOSE k \in good : \A j \in good : j <= k))

\* strconv.ParseFloat(left, 64), strconv.ParseFloat(right, 64)
ParseFloat(bs) == ParseDecimal(bs)

(***************************************************************************)
(* parseExpression                                                         *)
(***************************************************************************)

NotASpace(c) == c # Ch.sp

\* strings.ReplaceAll(expr, " ", "")
StripSpaces(bs) == SelectSeq(bs, NotASpace)

\* operators := []string{"**", "÷", "×", "^", "%", "/", "*", "+", "-"}
operators ==
    << <<Ch.star, Ch.star>>, UTF8(Ch.divide), UTF8(Ch.times), <<Ch.caret>>,
       <<Ch.percent>>, <<Ch.slash>>, <<Ch.star>>, <<Ch.plus>>, <<Ch.minus>> >>

\* Whether o occurs in bs at byte index i (counted from 0, as in Go).
OccursAt(bs, o, i) ==
    /\ i >= 0
    /\ i + Len(o) <= Len(bs)
    /\ SubSeq(bs, i + 1, i + Len(o)) = o

\* strings.Index(expr, op): the first index, -1 when there is none.
Index(bs, o) ==
    LET at == {i \in 0..Len(bs) : OccursAt(bs, o, i)}
    IN  IF at = {} THEN -1 ELSE Min(at)

\* left := expr[:i]
SplitLeft(bs, i) == SubSeq(bs, 1, i)

\* The right side cut one byte after the operator's first byte, whatever the
\* operator's length: expr[idx+1:] in both branches.
SplitRightOneByte(bs, i, o) == SubSeq(bs, i + 2, Len(bs))

\* right := expr[i+1:] for a sign, expr[idx+len(op):] for the others
SplitRight(bs, i, o) == SubSeq(bs, i + Len(o) + 1, Len(bs))

NoSplit == [ok |-> FALSE]

\* The body of both branches once a position is chosen: right must not be
\* empty and both sides must parse.
TrySplit(bs, o, i) ==
    LET left == SplitLeft(bs, i)
        right == SplitRight(bs, i, o)
        pa == ParseFloat(left)
        pb == ParseFloat(right)
    IN  IF right # <<>> /\ pa.ok /\ pb.ok
        THEN [ok |-> TRUE, a |-> pa.v, op |-> o, b |-> pb.v]
        ELSE NoSplit

\* prevChar >= '0' && prevChar <= '9' || prevChar == ')'
PrevCharAllows(c) == IsDigit(c) \/ c = Ch.rparen

\* for i := 1; i < len(expr); i++ { ... }: the loop returns at the first i
\* where expr[i] is the sign, the character before it allows it and both
\* sides parse.
ScanSign(bs, o) ==
    LET hits == {i \in 1..(Len(bs) - 1) :
                    bs[i + 1] = o[1] /\ PrevCharAllows(bs[i]) /\ TrySplit(bs, o, i).ok}
    IN  IF hits = {} THEN NoSplit ELSE TrySplit(bs, o, Min(hits))

\* One turn of the loop over the operators.
TryOperator(bs, o) ==
    IF o = <<Ch.minus>> \/ o = <<Ch.plus>>
    THEN ScanSign(bs, o)
    ELSE LET idx == Index(bs, o)
         IN  IF idx > 0 THEN TrySplit(bs, o, idx) ELSE NoSplit

RECURSIVE ParseIn(_, _)
\* The loop over the operators tried in the order ops.
ParseIn(ops, bs) ==
    IF ops = <<>> THEN NoSplit
    ELSE LET t == TryOperator(bs, Head(ops))
         IN  IF t.ok THEN t ELSE ParseIn(Tail(ops), bs)

\* parseExpression(expr); [ok |-> FALSE] is the error "операция не найдена".
parseExpression(s) == ParseIn(operators, StripSpaces(Encode(s)))

(***************************************************************************)
(* supportedOps                                                            *)
(***************************************************************************)

Negate(v) == [v EXCEPT !.neg = ~v.neg]

\* a + b: a zero sum is +0 unless both terms are -0.
Add(x, y) ==
    LET sx == IF x.neg THEN -x.n ELSE x.n
        sy == IF y.neg THEN -y.n ELSE y.n
        num == sx * y.d + sy * x.d
    IN  IF num = 0 THEN Fin(x.neg /\ y.neg, 0, 1)
        ELSE IF num < 0 THEN Fin(TRUE, -num, x.d * y.d)
        ELSE Fin(FALSE, num, x.d * y.d)

\* a - b
Sub(x, y) == Add(x, Negate(y))

\* a * b
Mul(x, y) == Fin(x.neg # y.neg, x.n * y.n, x.d * y.d)

\* a / b: x/0 is an infinity, 0/0 is NaN
Quo(x, y) ==
    IF y.n = 0 THEN (IF x.n = 0 THEN NaN ELSE Inf(x.neg # y.neg))
    ELSE Fin(x.neg # y.neg, x.n * y.d, x.d * y.n)

\* math.Mod(a, b): the remainder of |a| by |b| with a's sign; Mod(x, 0) = NaN
Mod(x, y) ==
    IF y.n = 0 THEN NaN
    ELSE Fin(x.neg, (x.n * y.d) % (y.n * x.d), x.d * y.d)

\* The largest magnitude the model computes a power's numerator or
\* denominator to; PowNat answers PowCap + 1 for anything above it.
PowCap == 1000000

RECURSIVE PowUp(_, _, _)
\* acc * base^e for base >= 2, cut off above PowCap
PowUp(base, e, acc) ==
    IF e = 0 THEN acc
    ELSE IF acc * base > PowCap THEN PowCap + 1
    ELSE PowUp(base, e - 1, acc * base)

\* base^e for naturals, PowCap + 1 when it is above PowCap
PowNat(base, e) == IF e = 0 THEN 1 ELSE IF base <= 1 THEN base ELSE PowUp(base, e, 1)

\* The integer whose square is m, or -1.
ISqrt(m) ==
    LET roots == {r \in 0..1000 : r * r = m}
    IN  IF m <= PowCap /\ roots # {} THEN CHOOSE r \in roots : TRUE ELSE -1

\* math.Pow(x, y) for finite x and y, by the cases of its documentation:
\*   Pow(x, ±0) = 1, Pow(1, y) = 1,
\*   Pow(±0, y) = ±Inf for y an odd integer < 0, +Inf for other y < 0,
\*   Pow(±0, y) = ±0 for y an odd integer > 0, +0 for other y > 0,
\*   Pow(x, y) = NaN for x < 0 and y not an integer,
\* an overflow gives ±Inf.
Pow(x, y) ==
    LET yOdd == IsInteger(y) /\ y.n % 2 = 1
        neg == x.neg /\ yOdd
        num == PowNat(x.n, y.n)
        den == PowNat(x.d, y.n)
        \* 2^1024 and 10^309 are above the largest float64
        overflows == ~y.neg /\ ((x.n >= 2 * x.d /\ y.n >= 1024 * y.d)
                                \/ (x.n >= 10 * x.d /\ y.n >= 309 * y.d))
        \* |x| in (1/1000, 1000) and |y| <= 100: |x^y| in (1e-300, 1e300)
        finite == x.n < 1000 * x.d /\ x.d < 1000 * x.n /\ y.n <= 100 * y.d
    IN  IF IsZero(y) THEN Fin(FALSE, 1, 1)
        ELSE IF x = Fin(FALSE, 1, 1) THEN Fin(FALSE, 1, 1)
        ELSE IF IsZero(x) THEN (IF y.neg THEN Inf(neg) ELSE Fin(neg, 0, 1))
        ELSE IF x.neg /\ ~IsInteger(y) THEN NaN
        ELSE IF IsInteger(y) /\ num <= PowCap /\ den <= PowCap
             THEN (IF y.neg THEN Fin(neg, den, num) ELSE Fin(neg, num, den))
        ELSE IF y.d = 2 /\ y.n = 1 /\ ISqrt(x.n) >= 0 /\ ISqrt(x.d) >= 0
             THEN (IF y.neg THEN Fin(FALSE, ISqrt(x.d), ISqrt(x.n))
                   ELSE Fin(FALSE, ISqrt(x.n), ISqrt(x.d)))
        ELSE IF overflows THEN Inf(neg)
        ELSE IF finite THEN Approx
        ELSE Unmodelled

\* The names of the operators as the bytes of the map's keys.
OpAdd == <<Ch.plus>>
OpSub == <<Ch.minus>>
OpMul == {<<Ch.star>>, UTF8(Ch.times)}
OpDiv == {<<Ch.slash>>, UTF8(Ch.divide)}
OpPow == {<<Ch.caret>>, <<Ch.star, Ch.star>>}
OpMod == <<Ch.percent>>

\* The keys of supportedOps.
SupportedOps == {OpAdd, OpSub, OpMod} \cup OpMul \cup OpDiv \cup OpPow

\* A test for zero that misses the negative zero
DivisorIsPlainZero(y) == y.n = 0 /\ ~y.neg

\* if b == 0 { return 0, fmt.Errorf("деление на ноль") }
DivisorIsZero(y) == y.n = 0

\* supportedOps[op](a, b): the value and the error returned.
OpFunc(o, x, y) ==
    IF o = OpAdd THEN [v |-> Add(x, y), err |-> "none"]
    ELSE IF o = OpSub THEN [v |-> Sub(x, y), err |-> "none"]
    ELSE IF o \in OpMul THEN [v |-> Mul(x, y), err |-> "none"]
    ELSE IF o \in OpDiv
         THEN (IF DivisorIsZero(y) THEN [v |-> Fin(FALSE, 0, 1), err |-> "DivisionByZero"]
               ELSE [v |-> Quo(x, y), err |-> "none"])
    ELSE IF o \in OpPow THEN [v |-> Pow(x, y), err |-> "none"]
    ELSE (IF DivisorIsZero(y) THEN [v |-> Fin(FALSE, 0, 1), err |-> "DivisionByZero"]
          ELSE [v |-> Mod(x, y), err |-> "none"])

\* math.IsInf(result, 0), math.IsNaN(result)
IsInf(v) == v.k = "inf"
IsNaN(v) == v.k = "nan"

\* The checks after opFunc without the one for infinity
CheckResultNaNOnly(v) == IF v.k = "nan" THEN "ResultNotANumber" ELSE "none"

\* The error of the two checks after opFunc.
CheckResult(v) ==
    IF IsInf(v) THEN "ResultTooLarge"
    ELSE IF IsNaN(v) THEN "ResultNotANumber"
    ELSE "none"

(***************************************************************************)
(* Formatting                                                              *)
(***************************************************************************)

DigitStr == <<"0", "1", "2", "3", "4", "5", "6", "7", "8", "9">>

RECURSIVE NatStr(_)
\* A natural number in decimal.
NatStr(m) == IF m < 10 THEN DigitStr[m + 1] ELSE NatStr(m \div 10) \o DigitStr[(m % 10) + 1]

RECURSIVE Zeros(_)
Zeros(c) == IF c <= 0 THEN "" ELSE "0" \o Zeros(c - 1)

RECURSIVE TrimZeros(_)
\* m without its trailing decimal zeros
TrimZeros(m) == IF m > 0 /\ m % 10 = 0 THEN TrimZeros(m \div 10) ELSE m

RECURSIVE NumDigits(_)
NumDigits(m) == IF m < 10 THEN 1 ELSE 1 + NumDigits(m \div 10)

RECURSIVE Exp10(_, _, _)
\* The decimal exponent of n/d > 0: the X with 10^X <= n/d < 10^(X+1).
Exp10(n, d, x) ==
    IF n >= 10 * d THEN Exp10(n, 10 * d, x + 1)
    ELSE IF n < d THEN Exp10(10 * n, d, x - 1)
    ELSE x

RECURSIVE LongDiv(_, _, _, _)
\* c more digits of rem/d after acc; answers <<the digits, the remainder>>.
LongDiv(rem, d, c, acc) ==
    IF c = 0 THEN <<acc, rem>>
    ELSE LongDiv((10 * rem) % d, d, c - 1, 10 * acc + ((10 * rem) \div d))

\* n/d > 0 rounded to six significant digits, to nearest and, on a tie (which
\* a double only meets when it is the value exactly), to even:
\* [m |-> the six digits, x |-> the decimal exponent of the first].
Round6(n, d) ==
    LET x0 == Exp10(n, d, 0)
        nn == IF x0 < 0 THEN n * Pow10(-x0) ELSE n
        dd == IF x0 > 0 THEN d * Pow10(x0) ELSE d
        q == LongDiv(nn % dd, dd, 5, nn \div dd)
        up == 2 * q[2] > dd \/ (2 * q[2] = dd /\ q[1] % 2 = 1)
        m == IF up THEN q[1] + 1 ELSE q[1]
    IN  IF m = 1000000 THEN [m |-> 100000, x |-> x0 + 1] ELSE [m |-> m, x |-> x0]

\* The digits of %e and %f for the mantissa m (six digits) and exponent x,
\* as %g prints them: no trailing zeros, %e when x < -4 or x >= 6.
FormatG(m, x) ==
    LET t == TrimZeros(m)
        nd == NumDigits(t)
        first == t \div Pow10(nd - 1)
        rest == t % Pow10(nd - 1)
        restStr == Zeros((nd - 1) - NumDigits(rest)) \o NatStr(rest)
        ax == IF x < 0 THEN -x ELSE x
        expStr == (IF x < 0 THEN "e-" ELSE "e+") \o (IF ax < 10 THEN "0" ELSE "") \o NatStr(ax)
        intDigits == x + 1
        ip == t \div Pow10(nd - intDigits)
        fp == t % Pow10(nd - intDigits)
    IN  IF x < -4 \/ x >= 6
        THEN DigitStr[first + 1] \o (IF nd > 1 THEN "." \o restStr ELSE "") \o expStr
        ELSE IF x < 0 THEN "0." \o Zeros(-x - 1) \o NatStr(t)
        ELSE IF nd <= intDigits THEN NatStr(t * Pow10(intDigits - nd))
        ELSE NatStr(ip) \o "." \o Zeros((nd - intDigits) - NumDigits(fp)) \o NatStr(fp)

\* result == float64(int64(result)), for results within int64's range
IsWhole(v) == v.k = "fin" /\ v.d = 1

\* fmt.Sprintf("%.0f", result) of a whole number
FormatWhole(v) == (IF v.neg THEN "-" ELSE "") \o NatStr(v.n)

\* fmt.Sprintf("%.6g", result)
FormatSixG(v) ==
    LET r == Round6(v.n, v.d)
    IN  (IF v.neg THEN "-" ELSE "") \o FormatG(r.m, r.x)

\* The last three lines of Calculate.  A double the model has no digits for
\* prints as "~".
Format(v) ==
    IF v.k # "fin" THEN "~"
    ELSE IF IsWhole(v) THEN FormatWhole(v)
    ELSE FormatSixG(v)

(***************************************************************************)
(* Calculate                                                               *)
(***************************************************************************)

Failure(e) == [err |-> e, out |-> ""]
Success(str) == [err |-> "none", out |-> str]

\* Calculate from the checks of the result on: the result is v
CalculateChecked(v, c) == IF c # "none" THEN Failure(c) ELSE Success(Format(v))

\* Calculate from the call of opFunc on: opFunc returned r
CalculateApplied(r) ==
    IF r.err # "none" THEN Failure(r.err) ELSE CalculateChecked(r.v, CheckResult(r.v))

\* Calculate from the call of parseExpression on: parseExpression returned p
CalculateParsed(p) ==
    IF ~p.ok THEN Failure("NoOperatorFound")
    ELSE IF p.op \notin SupportedOps THEN Failure("UnsupportedOperator")
    ELSE CalculateApplied(OpFunc(p.op, p.a, p.b))

\* Calculate from the call of validateExpression on: it returned v
CalculateValidated(s, v) ==
    IF v # "none" THEN Failure(v) ELSE CalculateParsed(parseExpression(s))

\* Calculate(expr) as one call: what it returns.
Calculate(s) == CalculateValidated(s, validateExpression(s))

(***************************************************************************)
(* The inputs of Calculate                                                 *)
(***************************************************************************)

\* The code point of the digit k
D(k) == Ch.zero + k

\* The operator symbols as users type them (code points).
OpSymbols ==
    { <<Ch.plus>>, <<Ch.minus>>, <<Ch.star>>, <<Ch.times>>, <<Ch.slash>>,
      <<Ch.divide>>, <<Ch.caret>>, <<Ch.star, Ch.star>>, <<Ch.percent>> }

\* First operands: 2, -5, +3, 10.5, 0, -0
LeftOperands ==
    { <<D(2)>>, <<Ch.minus, D(5)>>, <<Ch.plus, D(3)>>, <<D(1), D(0), Ch.dot, D(5)>>,
      <<D(0)>>, <<Ch.minus, D(0)>> }

\* Second operands: 3, -3, +3, 0, 0.0, -0, 0.5, -1
RightOperands ==
    { <<D(3)>>, <<Ch.minus, D(3)>>, <<Ch.plus, D(3)>>, <<D(0)>>, <<D(0), Ch.dot, D(0)>>,
      <<Ch.minus, D(0)>>, <<D(0), Ch.dot, D(5)>>, <<Ch.minus, D(1)>> }

\* <a><op><b>
TwoOperand == {x \o o \o y : x \in LeftOperands, o \in OpSymbols, y \in RightOperands}

\* s with the character c put in before position i + 1
Insert(s, i, c) == SubSeq(s, 1, i) \o <<c>> \o SubSeq(s, i + 1, Len(s))

\* The operands of the inputs a character is put into.
SmallLeft == { <<D(2)>>, <<Ch.minus, D(5)>> }
SmallRight == { <<D(3)>>, <<Ch.minus, D(3)>> }

\* The characters put in: the validator's whitespace, the parentheses, and two
\* characters outside the validator's set ('$' and the vertical tab)
InsertChars == {Ch.sp, Ch.tab, Ch.nl, Ch.cr, Ch.ff, Ch.lparen, Ch.rparen, Ch.dollar, Ch.vt}

\* <a><op><b> with one character put in anywhere
WithInsert ==
    UNION { { Insert(x \o o \o y, i, c) : i \in 0..Len(x \o o \o y), c \in InsertChars }
            : x \in SmallLeft, o \in OpSymbols, y \in SmallRight }

\* The longest run of one character put before an input
MaxPad == 101

Repeat(c, k) == [i \in 1..k |-> c]

\* Runs of '0', ' ', '×', '$' or a no-break space, alone or before "2+3"
Padded ==
    { Repeat(c, k) \o core :
        c \in {Ch.zero, Ch.sp, Ch.times, Ch.dollar, Ch.nbsp},
        k \in 0..MaxPad,
        core \in { <<>>, <<D(2), Ch.plus, D(3)>> } }

\* The longest of the strings over Alphabet
MaxLen == 4

Alphabet == {D(2), Ch.dot, Ch.plus, Ch.minus, Ch.star, Ch.times, Ch.rparen}

\* Every string over Alphabet of at most MaxLen characters
Strings == UNION { [1..k -> Alphabet] : k \in 0..MaxLen }

\* "abc", "5$3", "10^999", "-10^999", "   "
Named ==
    { <<Ch.la, Ch.lb, Ch.lc>>, <<D(5), Ch.dollar, D(3)>>,
      <<D(1), D(0), Ch.caret, D(9), D(9), D(9)>>,
      <<Ch.minus, D(1), D(0), Ch.caret, D(9), D(9), D(9)>>,
      <<Ch.sp, Ch.sp, Ch.sp>> }

Inputs == TwoOperand \cup WithInsert \cup Padded \cup Strings \cup Named

(***************************************************************************)
(* Calculate, statement by statement                                       *)
(***************************************************************************)

NoValue == Fin(FALSE, 0, 1)

InitCalc ==
    /\ expr \in Inputs
    /\ pc = "validate"
    /\ stages = <<>>
    /\ err = "none"
    /\ a = NoValue
    /\ op = <<>>
    /\ b = NoValue
    /\ result = NoValue
    /\ out = ""

\* No bot runs while Calculate is studied on its own.
BotIdle ==
    /\ updates = <<>>
    /\ handlers = <<>>
    /\ sent = <<>>
    /\ running = FALSE

\* if err := c.validateExpression(expr); err != nil { return "", err }
Validate ==
    /\ pc = "validate"
    /\ stages' = Append(stages, "validate")
    /\ err' = validateExpression(expr)
    /\ pc' = IF validateExpression(expr) = "none" THEN "parse" ELSE "done"
    /\ UNCHANGED <<expr, a, op, b, result, out>>
    /\ UNCHANGED botVars

\* a, op, b, err := c.parseExpression(expr); if err != nil { return "", err }
Parse ==
    /\ pc = "parse"
    /\ stages' = Append(stages, "parse")
    /\ LET p == parseExpression(expr)
       IN  IF p.ok
           THEN /\ a' = p.a
                /\ op' = p.op
                /\ b' = p.b
                /\ pc' = "evaluate"
                /\ err' = err
           ELSE /\ err' = "NoOperatorFound"
                /\ pc' = "done"
                /\ UNCHANGED <<a, op, b>>
    /\ UNCHANGED <<expr, result, out>>
    /\ UNCHANGED botVars

\* opFunc, exists := c.supportedOps[op]; result, err := opFunc(a, b)
Evaluate ==
    /\ pc = "evaluate"
    /\ stages' = Append(stages, "evaluate")
    /\ IF op \notin SupportedOps
       THEN /\ err' = "UnsupportedOperator"
            /\ pc' = "done"
            /\ result' = result
       ELSE IF OpFunc(op, a, b).err # "none"
       THEN /\ err' = OpFunc(op, a, b).err
            /\ pc' = "done"
            /\ result' = result
       ELSE /\ result' = OpFunc(op, a, b).v
            /\ pc' = "check"
            /\ err' = err
    /\ UNCHANGED <<expr, a, op, b, out>>
    /\ UNCHANGED botVars

\* if math.IsInf(result, 0) {...}; if math.IsNaN(result) {...}
CheckFinite ==
    /\ pc = "check"
    /\ stages' = Append(stages, "check")
    /\ err' = CheckResult(result)
    /\ pc' = IF CheckResult(result) = "none" THEN "format" ELSE "done"
    /\ UNCHANGED <<expr, a, op, b, result, out>>
    /\ UNCHANGED botVars

\* return fmt.Sprintf(...), nil
FormatResult ==
    /\ pc = "format"
    /\ stages' = Append(stages, "format")
    /\ out' = Format(result)
    /\ pc' = "done"
    /\ UNCHANGED <<expr, err, a, op, b, result>>
    /\ UNCHANGED botVars

Init == InitCalc /\ BotIdle

Next == Validate \/ Parse \/ Evaluate \/ CheckFinite \/ FormatResult

Spec == Init /\ [][Next]_vars

\* Calculate has returned
Done == pc = "done"

\* Every result the inputs lead to is one the model computes or classifies.
ModelCoversInputs == result.k # "unmodelled"

\* The statements, run one by one, return what the call as a whole returns.
StepsAgreeWithCall == Done => [err |-> err, out |-> out] = Calculate(expr)

(***************************************************************************)
(* The bot: Start and handleMessage                                        *)
(*                                                                         *)
(* A reply is written [kind, body]: the fixed text of /start or of /help,  *)
(* "✅Результат: " followed by body, or "Ошибка: " followed by the message  *)
(* of the error body and the hint at /help.                                *)
(***************************************************************************)

\* The updates the model delivers
MaxUpdates == 2

\* "/start", "/help"
StartCommand == <<47, 115, 116, 97, 114, 116>>
HelpCommand == <<47, 104, 101, 108, 112>>

\* The texts of the messages: "/start", " /help\n", " 2+3", "1/0", "abc",
\* and the empty text
Texts ==
    { StartCommand, <<Ch.sp>> \o HelpCommand \o <<Ch.nl>>,
      <<Ch.sp, D(2), Ch.plus, D(3)>>, <<D(1), Ch.slash, D(0)>>,
      <<Ch.la, Ch.lb, Ch.lc>>, <<>> }

Chats == {71, 72}

\* An update without a message (upd.Message == nil)
NoMessage == [isNil |-> TRUE]

\* A message: its MessageID, its Chat.ID and its Text
Message(id, chat, text) == [isNil |-> FALSE, id |-> id, chat |-> chat, text |-> text]

NoReply == [kind |-> "none", body |-> ""]

\* The switch of handleMessage on the trimmed text.
ReplyFor(text) ==
    LET c == Calculate(text)
    IN  IF text = StartCommand THEN [kind |-> "start", body |-> ""]
        ELSE IF text = HelpCommand THEN [kind |-> "help", body |-> ""]
        ELSE IF c.err # "none" THEN [kind |-> "error", body |-> c.err]
        ELSE [kind |-> "result", body |-> c.out]

\* The message without msg.ReplyToMessageID = message.MessageID
NewMessageNoReplyTo(message, reply) ==
    [chat |-> message.chat, replyTo |-> 0, text |-> reply]

\* msg := tgbotapi.NewMessage(message.Chat.ID, reply)
\* msg.ReplyToMessageID = message.MessageID
NewMessage(message, reply) ==
    [chat |-> message.chat, replyTo |-> message.id, text |-> reply]

\* The number of updates the transport has produced so far
Produced == Len(updates) + Len(handlers)

CalcIdle ==
    /\ expr = <<>>
    /\ pc = "done"
    /\ stages = <<>>
    /\ err = "none"
    /\ a = NoValue
    /\ op = <<>>
    /\ b = NoValue
    /\ result = NoValue
    /\ out = ""

InitBot ==
    /\ updates = <<>>
    /\ handlers = <<>>
    /\ sent = <<>>
    /\ running = TRUE
    /\ CalcIdle

\* The transport puts an update with a message into the channel.
Deliver ==
    /\ running
    /\ Produced < MaxUpdates
    /\ \E chat \in Chats, text \in Texts :
          updates' = Append(updates, Message(Produced + 1, chat, text))
    /\ UNCHANGED <<handlers, sent, running>>
    /\ UNCHANGED calcVars

\* The transport puts an update without a message into the channel.
DeliverOther ==
    /\ running
    /\ Produced < MaxUpdates
    /\ updates' = Append(updates, NoMessage)
    /\ UNCHANGED <<handlers, sent, running>>
    /\ UNCHANGED calcVars

\* case update := <-updates: go func(upd tgbotapi.Update) {...}(update)
Receive ==
    /\ running
    /\ updates # <<>>
    /\ handlers' = Append(handlers, [msg |-> Head(updates), pc |-> "start", reply |-> NoReply])
    /\ updates' = Tail(updates)
    /\ UNCHANGED <<sent, running>>
    /\ UNCHANGED calcVars

\* case <-ctx.Done(): h.bot.StopReceivingUpdates(); return ctx.Err()
Stop ==
    /\ running
    /\ running' = FALSE
    /\ UNCHANGED <<updates, handlers, sent>>
    /\ UNCHANGED calcVars

\* handleMessage up to the end of its switch: the early return, or the reply
HandleText(i) ==
    /\ i \in DOMAIN handlers
    /\ handlers[i].pc = "start"
    /\ LET m == handlers[i].msg
       IN  IF m.isNil \/ m.text = <<>>
           THEN handlers' = [handlers EXCEPT ![i].pc = "done"]
           ELSE handlers' = [handlers EXCEPT ![i].pc = "send",
                                             ![i].reply = ReplyFor(TrimSpace(m.text))]
    /\ UNCHANGED <<updates, sent, running>>
    /\ UNCHANGED calcVars

\* h.bot.Send(msg); an error of Send is logged and nothing else
HandleSend(i) ==
    /\ i \in DOMAIN handlers
    /\ handlers[i].pc = "send"
    /\ sent' = Append(sent, NewMessage(handlers[i].msg, handlers[i].reply))
    /\ handlers' = [handlers EXCEPT ![i].pc = "done"]
    /\ UNCHANGED <<updates, running>>
    /\ UNCHANGED calcVars

NextBot ==
    \/ Deliver
    \/ DeliverOther
    \/ Receive
    \/ Stop
    \/ \E i \in 1..MaxUpdates : HandleText(i)
    \/ \E i \in 1..MaxUpdates : HandleSend(i)

SpecBot == InitBot /\ [][NextBot]_vars

(***************************************************************************)
(* The claims                                                              *)
(***************************************************************************)

\* What Calculate has returned
Returned == [err |-> err, out |-> out]

\* The value the program reads a literal as
Val(x) == ParseFloat(Encode(x)).v

\* The operator the symbol o stands for, applied
Apply(o, x, y) == OpFunc(Encode(o), Val(x), Val(y)).v

DivisionSymbols == { <<Ch.slash>>, <<Ch.divide>>, <<Ch.percent>> }

\* "-5+3" and "2*-3"
MinusFivePlusThree == <<Ch.minus, D(5), Ch.plus, D(3)>>
TwoTimesMinusThree == <<D(2), Ch.star, Ch.minus, D(3)>>

\* C1 as claimed: for every input <a><op><b> with a and b decimal literals and
\* op a supported operator symbol, Calculate succeeds and returns the formatted
\* value of op applied to a and b.
C1_AlwaysSucceeds ==
    \A x \in LeftOperands, o \in OpSymbols, y \in RightOperands :
        (Done /\ expr = x \o o \o y) =>
            (err = "none" /\ out = Format(Apply(o, x, y)))

\* C1 as amended: for every input <a><op><b> that passes validation, Calculate
\* fails with DivisionByZero when op is /, ÷ or % and b is zero, with
\* ResultTooLarge when op applied to a and b is infinite, with ResultNotANumber
\* when it is NaN, and otherwise succeeds and returns the formatted value of op
\* applied to a and b; "-5+3" gives "-2" and "2*-3" gives "-6".
C1_TwoOperandValue ==
    /\ \A x \in LeftOperands, o \in OpSymbols, y \in RightOperands :
          (Done /\ expr = x \o o \o y /\ validateExpression(expr) = "none") =>
              IF o \in DivisionSymbols /\ Val(y).n = 0 THEN Returned = Failure("DivisionByZero")
              ELSE IF Apply(o, x, y).k = "inf" THEN Returned = Failure("ResultTooLarge")
              ELSE IF Apply(o, x, y).k = "nan" THEN Returned = Failure("ResultNotANumber")
              ELSE Returned = Success(Format(Apply(o, x, y)))
    /\ (Done /\ expr = MinusFivePlusThree) => Returned = Success("-2")
    /\ (Done /\ expr = TwoTimesMinusThree) => Returned = Success("-6")

\* C1's case: "2*-3" has been calculated and gave "-6"
C1_Witness == Done /\ expr = TwoTimesMinusThree /\ out = "-6" /\ a = Val(<<D(2)>>)

\* C2 as claimed: validate fails with TooLong exactly when the input has more
\* than 100 characters, × and ÷ counting as one character each.
C2_TooLongIffOver100Characters ==
    Done => (err = "TooLong" <=> Len(expr) > maxExpressionLength)

\* The whitespace the validator accepts
ValidatorWhitespace == {Ch.sp, Ch.tab, Ch.nl, Ch.cr, Ch.ff}

\* C3 as claimed: putting a whitespace character the validator accepts before,
\* after or between the operands and the operator does not change the result.
C3_WhitespaceIgnored ==
    \A x \in SmallLeft, o \in OpSymbols, y \in SmallRight, w \in ValidatorWhitespace :
        \A i \in {0, Len(x), Len(x) + Len(o), Len(x) + Len(o) + Len(y)} :
            (Done /\ expr = Insert(x \o o \o y, i, w)) => Returned = Calculate(x \o o \o y)

\* "abc"
TextAbc == <<Ch.la, Ch.lb, Ch.lc>>

\* C4 as claimed: Calculate("abc") fails with NoOperatorFound.
C4_AbcNoOperatorFound == (Done /\ expr = TextAbc) => err = "NoOperatorFound"

\* C4 as amended: Calculate("abc") fails with InvalidCharacters, at validation
\* and without tokenization being attempted.
C4_AbcInvalidCharacters ==
    (Done /\ expr = TextAbc) => (Returned = Failure("InvalidCharacters") /\ stages = <<"validate">>)

\* C4's case: Calculate("abc") has returned
C4_Witness == Done /\ expr = TextAbc /\ err # "none"

\* The characters the specification lists as accepted:
\* 0-9 + - * / × ÷ ^ % ( ) . and whitespace
AcceptedCharacter(cp) ==
    \/ cp \in D(0)..D(9)
    \/ cp \in {Ch.plus, Ch.minus, Ch.star, Ch.slash, Ch.times, Ch.divide,
               Ch.caret, Ch.percent, Ch.lparen, Ch.rparen, Ch.dot}
    \/ cp \in ValidatorWhitespace

AllAccepted(s) == \A i \in 1..Len(s) : AcceptedCharacter(s[i])

WhitespaceOnly(s) == \A i \in 1..Len(s) : IsSpace(s[i])

\* The operator symbols of the list, as bytes
OperatorSet == {operators[i] : i \in 1..Len(operators)}

\* The pairs (operator symbol, position) of bs that split it into two
\* non-empty sides that both parse as numbers.
StructuralSplits(bs) ==
    { s \in OperatorSet \X (0..Len(bs)) :
        /\ OccursAt(bs, s[1], s[2])
        /\ SubSeq(bs, 1, s[2]) # <<>>
        /\ SubSeq(bs, s[2] + Len(s[1]) + 1, Len(bs)) # <<>>
        /\ ParseFloat(SubSeq(bs, 1, s[2])).ok
        /\ ParseFloat(SubSeq(bs, s[2] + Len(s[1]) + 1, Len(bs))).ok }

\* The steps of Calculate in the order of its text
AllStages == <<"validate", "parse", "evaluate", "check", "format">>

StagesInOrder == Len(stages) <= Len(AllStages) /\ stages = SubSeq(AllStages, 1, Len(stages))

\* The errors of the evaluation
EvaluationErrors == {"DivisionByZero", "ResultTooLarge", "ResultNotANumber"}

\* The order of C5, tooLong saying whether expr is over-long.
FirstFailingStage(tooLong) ==
    /\ StagesInOrder
    /\ Done =>
        /\ IF tooLong THEN Returned = Failure("TooLong")
           ELSE IF WhitespaceOnly(expr) THEN Returned = Failure("Empty")
           ELSE IF ~AllAccepted(expr)
                THEN Returned = Failure("InvalidCharacters") /\ stages = <<"validate">>
           ELSE IF StructuralSplits(StripSpaces(Encode(expr))) = {}
                THEN Returned = Failure("NoOperatorFound")
           ELSE TRUE
        /\ err \in EvaluationErrors =>
              /\ ~tooLong /\ ~WhitespaceOnly(expr) /\ AllAccepted(expr)
              /\ StructuralSplits(StripSpaces(Encode(expr))) # {}
              /\ SubSeq(stages, 1, 2) = <<"validate", "parse">>
        /\ err = "NoOperatorFound" => stages = <<"validate", "parse">>
        /\ err \in {"TooLong", "Empty", "InvalidCharacters"} => stages = <<"validate">>

\* C5 as claimed: Calculate validates, tokenizes, evaluates and formats in that
\* order and returns the error of the first stage that fails: TooLong for an
\* input of more than 100 characters, otherwise Empty for a whitespace-only
\* input, otherwise InvalidCharacters, with no tokenization, for an input with
\* a character outside the accepted set, otherwise NoOperatorFound for an input
\* without a structural match; DivisionByZero, ResultTooLarge and
\* ResultNotANumber only for inputs that passed validation and tokenization.
C5_FirstFailingStage == FirstFailingStage(Len(expr) > maxExpressionLength)

\* C5 with the length counted as validateExpression counts it, in bytes: the
\* order of the stages itself holds.
C5_FirstFailingStageByBytes == FirstFailingStage(ByteLen(expr) > maxExpressionLength)

\* The literals of zero among the second operands: 0, 0.0, -0
ZeroLiterals == { <<D(0)>>, <<D(0), Ch.dot, D(0)>>, <<Ch.minus, D(0)>> }

\* C6: once an expression is tokenized with the operator /, ÷ or % and a right
\* operand equal to zero (written 0, 0.0 or -0), Calculate fails with
\* DivisionByZero and returns no value.
C6_ZeroDivisorRejected ==
    /\ (op \in OpDiv \cup {OpMod} /\ b.n = 0) =>
          (pc = "evaluate" \/ (Done /\ Returned = Failure("DivisionByZero")))
    /\ \A x \in LeftOperands, o \in DivisionSymbols, y \in ZeroLiterals :
          (Done /\ expr = x \o o \o y) =>
              (Returned = Failure("DivisionByZero") /\ stages = <<"validate", "parse", "evaluate">>)

\* C6's case: a remainder by -0 has been refused
C6_Witness == Done /\ op = OpMod /\ b = Fin(TRUE, 0, 1) /\ err = "DivisionByZero"

\* "10^999"
TenToThe999 == <<D(1), D(0), Ch.caret, D(9), D(9), D(9)>>

\* C7: Calculate never returns a non-finite value as a success: an infinite
\* result fails with ResultTooLarge, a NaN with ResultNotANumber.
C7_NoNonFiniteSuccess ==
    /\ (Done /\ err = "none") => (result.k \in {"fin", "approx"} /\ stages = AllStages)
    /\ (pc = "format") => result.k \in {"fin", "approx"}
    /\ (Done /\ result.k = "inf") => Returned = Failure("ResultTooLarge")
    /\ (Done /\ result.k = "nan") => Returned = Failure("ResultNotANumber")
    /\ (Done /\ expr = TenToThe999) => Returned = Failure("ResultTooLarge")

\* C7's case: the overflowing power 10^999 has been refused
C7_Witness == Done /\ expr = TenToThe999 /\ result = Inf(FALSE) /\ err = "ResultTooLarge"

HasParenthesis(s) == \E i \in 1..Len(s) : s[i] \in {Ch.lparen, Ch.rparen}

\* C8: an input with a parenthesis that passes validation (at most 100 bytes,
\* not blank, accepted characters only) fails at tokenization with
\* NoOperatorFound; validation does not reject it for the parenthesis, and it
\* never evaluates.
C8_ParenthesesNoOperatorFound ==
    (Done /\ HasParenthesis(expr)) =>
        /\ err # "none"
        /\ (ByteLen(expr) <= maxExpressionLength /\ ~WhitespaceOnly(expr) /\ AllAccepted(expr)) =>
              (Returned = Failure("NoOperatorFound") /\ stages = <<"validate", "parse">>)

\* C8's case: an input with ")" before a sign has been refused by the tokenizer
C8_Witness ==
    /\ Done
    /\ err = "NoOperatorFound"
    /\ \E i \in 1..(Len(expr) - 1) : expr[i] = Ch.rparen /\ expr[i + 1] = Ch.plus

\* The list of operators turned by k places, and the list reversed
Rotated(k) == [i \in 1..Len(operators) |-> operators[((i + k - 1) % Len(operators)) + 1]]
Reversed == [i \in 1..Len(operators) |-> operators[Len(operators) + 1 - i]]
Orders == {Rotated(k) : k \in 0..(Len(operators) - 1)} \cup {Reversed}

\* C10: an input that passes validation has at most one structural split
\* (operator symbol, position) in its space-stripped string, and
\* parseExpression returns the same for every order the operators are tried in.
C10_OneStructuralSplit ==
    (pc = "parse") =>
        LET bs == StripSpaces(Encode(expr))
        IN  /\ Cardinality(StructuralSplits(bs)) <= 1
            /\ \A order \in Orders : ParseIn(order, bs) = parseExpression(expr)
            /\ parseExpression(expr).ok => StructuralSplits(bs) # {}

\* C10's case: "2**-3" is tokenized as 2 ** -3, its one structural split
C10_Witness ==
    /\ pc = "evaluate"
    /\ op = <<Ch.star, Ch.star>>
    /\ b = Fin(TRUE, 3, 1)
    /\ Cardinality(StructuralSplits(StripSpaces(Encode(expr)))) = 1

\* The calls of Send made in reply to the message of handler i
RepliesTo(i) == {j \in DOMAIN sent : sent[j].replyTo = handlers[i].msg.id}

\* The reply the claim gives a text: the fixed text of /start or /help, the
\* result of Calculate after the success marker, or its error after the
\* failure marker
IsReplyTo(reply, text) ==
    LET t == TrimSpace(text)
    IN  /\ t = StartCommand => reply = [kind |-> "start", body |-> ""]
        /\ t = HelpCommand => reply = [kind |-> "help", body |-> ""]
        /\ (t \notin {StartCommand, HelpCommand} /\ Calculate(t).err = "none") =>
              reply = [kind |-> "result", body |-> Calculate(t).out]
        /\ (t \notin {StartCommand, HelpCommand} /\ Calculate(t).err # "none") =>
              reply = [kind |-> "error", body |-> Calculate(t).err]

\* C9: however the handler goroutines interleave, a handler whose message has
\* a non-empty text calls Send exactly once before it returns, to that
\* message's chat, in reply to that message's ID and with the reply its own
\* trimmed text determines, whatever Calculate answers; nothing else is sent.
C9_OneReplyPerMessage ==
    /\ \A i \in DOMAIN handlers :
          LET h == handlers[i]
          IN  IF h.msg.isNil \/ h.msg.text = <<>>
              THEN h.pc # "send"
              ELSE /\ Cardinality(RepliesTo(i)) = (IF h.pc = "done" THEN 1 ELSE 0)
                   /\ \A j \in RepliesTo(i) :
                         /\ sent[j].chat = h.msg.chat
                         /\ IsReplyTo(sent[j].text, h.msg.text)
    /\ \A j \in DOMAIN sent :
          \E i \in DOMAIN handlers :
              /\ ~handlers[i].msg.isNil
              /\ handlers[i].msg.text # <<>>
              /\ sent[j].replyTo = handlers[i].msg.id

\* C9's case: two handlers ran side by side, the second message was answered
\* first, one reply carries an error of Calculate and the other does not
C9_Witness ==
    /\ Len(sent) = 2
    /\ sent[1].replyTo = 2
    /\ sent[2].replyTo = 1
    /\ sent[1].chat # sent[2].chat
    /\ sent[1].text.kind = "error"
    /\ sent[2].text.kind = "result"

====
